---- MODULE Spec2Model ----
(***************************************************************************)
(* zkInterface - libsnark integration helpers                              *)
(* (src/cpp/libsnark_integration.cpp) and the wire schema they speak       *)
(* (zkinterface.fbs).                                                      *)
(*                                                                         *)
(* A byte is a number in 0..255.  A limb (mp_limb_t, 64 bits) is kept as   *)
(* its BytesPerLimb base-256 digits, least significant first, so shifts by *)
(* multiples of 8 and bitwise OR are exact at the real width.  A bigint is *)
(* its RLimbs limbs (data[0] first).  A FieldT is kept as the canonical    *)
(* bigint as_bigint() returns (below the group order).                     *)
(***************************************************************************)
EXTENDS Integers, Sequences, FiniteSets, TLC

VARIABLES
    ndebug,       \* the build: TRUE when assert() is compiled out (-DNDEBUG)
    pc,           \* position of the calling program
    op,           \* the operation the calling program exercises
    \* ---- element codec harness
    elem,         \* the field element handed to the encoder
    size,         \* the width handed to into_le / the truncation width
    bytes,        \* the byte buffer handed over / received
    count,        \* num_elements handed to deserialize_elements
    elems,        \* the vector<FieldT> the decoder returned
    \* ---- protoboard harness
    circuit,      \* Circuit: connections.variable_ids and free_variable_id
    num_outputs,  \* num_outputs of serialize_protoboard_local_assignment
    pb,           \* protoboard: constant_term, values, constraints
    msg,          \* the message last built or received
    imported,     \* r1cs_constraints returned by deserialize_constraint
    prev_pb,      \* history: the protoboard when the last import was called
    calls         \* number of import calls made

vars == <<ndebug, pc, op, elem, size, bytes, count, elems,
          circuit, num_outputs, pb, msg, imported, prev_pb, calls>>

codec_vars == <<elem, size, bytes, count, elems>>
board_vars == <<circuit, num_outputs, pb, msg, imported, prev_pb, calls>>

\* ==== Widths ====

\* sizeof(num.data[0]), mp_limb_t on a 64-bit GMP
BytesPerLimb == 8
\* r_limbs, the limb count of bigint<r_limbs> (alt_bn128 scalar field)
RLimbs == 4
\* fieldt_size, the byte width every encoder call passes to into_le
fieldt_size == 32

Capacity == BytesPerLimb * RLimbs

Byte == 0..255

\* ==== Bounds of the model ====

\* widest width handed to into_le / from_le
MaxSize == 34
\* largest num_elements handed to deserialize_elements on its own
MaxCount == 3
\* longest raw buffer handed to deserialize_elements on its own
MaxBufLen == 7
\* most constraints the gadget adds before it exports them
MaxConstraints == 2
\* largest num_outputs
MaxOutputs == 2
\* most variables the exporting protoboard has allocated
MaxVars == 5
\* variables the importing protoboard has allocated
MaxStore == 3
\* most (id, value) pairs in one assignment message
MaxPairs == 2
\* most copy_variables_into_protoboard calls in a row
MaxCalls == 2
\* local variables looked at past the free id
MaxLocals == 2

\* ==== Limbs ====

RECURSIVE BitOr(_, _)
\* a | b on unsigned integers
BitOr(a, b) ==
    IF a = 0 THEN b
    ELSE IF b = 0 THEN a
    ELSE (IF a % 2 = 1 \/ b % 2 = 1 THEN 1 ELSE 0) + 2 * BitOr(a \div 2, b \div 2)

\* mp_limb_t(b): a byte widened to a limb
LimbOfByte(b) == [k \in 1..BytesPerLimb |-> IF k = 1 THEN b ELSE 0]

\* limb << bits, bits a multiple of 8 below the limb width; high bytes fall off
LimbShl(limb, bits) ==
    [k \in 1..BytesPerLimb |->
        IF k - (bits \div 8) >= 1 THEN limb[k - (bits \div 8)] ELSE 0]

\* limb >> bits, bits a multiple of 8 below the limb width
LimbShr(limb, bits) ==
    [k \in 1..BytesPerLimb |->
        IF k + (bits \div 8) <= BytesPerLimb THEN limb[k + (bits \div 8)] ELSE 0]

\* a | b on limbs
LimbOr(a, b) == [k \in 1..BytesPerLimb |-> BitOr(a[k], b[k])]

\* uint8_t(limb): the low byte
Uint8(limb) == limb[1]

\* bigint<r_limbs> num; -- libff clears data[]
ZeroBigint == [l \in 1..RLimbs |-> [k \in 1..BytesPerLimb |-> 0]]

\* ==== FieldT <-> bigint ====

\* the bytes of a bigint, least significant first
Flat(num) ==
    [k \in 1..Capacity |->
        num[((k - 1) \div BytesPerLimb) + 1][((k - 1) % BytesPerLimb) + 1]]

Unflat(d) ==
    [l \in 1..RLimbs |-> [k \in 1..BytesPerLimb |-> d[(l - 1) * BytesPerLimb + k]]]

\* the order r of the alt_bn128 scalar field, least significant byte first
ModulusBytes ==
    << 1, 0, 0, 240, 147, 245, 225, 67, 145, 112, 185, 121, 72, 232, 51, 40,
       93, 88, 129, 129, 182, 69, 80, 184, 41, 160, 49, 225, 114, 78, 100, 48 >>

RECURSIVE GeqFrom(_, _, _)
\* a >= b, comparing digits k, k-1, .., 1
GeqFrom(a, b, k) ==
    IF k = 0 THEN TRUE
    ELSE IF a[k] # b[k] THEN a[k] > b[k]
    ELSE GeqFrom(a, b, k - 1)

RECURSIVE SubFrom(_, _, _, _, _)
\* digits k.. of a - b appended to acc, borrow carried in from digit k - 1
SubFrom(a, b, k, borrow, acc) ==
    IF k > Capacity THEN acc
    ELSE SubFrom(a, b, k + 1,
                 IF a[k] - b[k] - borrow < 0 THEN 1 ELSE 0,
                 Append(acc, (a[k] - b[k] - borrow + 256) % 256))

\* a - b on digit strings, a >= b
SubDigits(a, b) == SubFrom(a, b, 1, 0, <<>>)

RECURSIVE ReduceDigits(_)
ReduceDigits(d) ==
    IF GeqFrom(d, ModulusBytes, Capacity)
    THEN ReduceDigits(SubDigits(d, ModulusBytes))
    ELSE d

\* FieldT(bigint): the element the integer names, modulo the order
FieldT(num) == Unflat(ReduceDigits(Flat(num)))

\* e.as_bigint(): the canonical integer of an element
as_bigint(e) == e

\* the element whose low bytes are ds
ElemOfBytes(ds) ==
    Unflat([k \in 1..Capacity |-> IF k <= Len(ds) THEN ds[k] ELSE 0])

\* FieldT::one()
One == ElemOfBytes(<<1>>)

\* ==== Element conversion helpers ====

RECURSIVE from_le_loop(_, _, _, _)
\* the loop of from_le from position byte on; a write to a limb past the
\* array (reached only without the assertion) lands outside num
from_le_loop(num, bs, sz, byte) ==
    IF byte >= sz THEN num
    ELSE LET limb      == byte \div BytesPerLimb
             limb_byte == byte % BytesPerLimb
         IN  from_le_loop(
                 IF limb < RLimbs
                 THEN [num EXCEPT ![limb + 1] =
                          LimbOr(@, LimbShl(LimbOfByte(bs[byte + 1]), limb_byte * 8))]
                 ELSE num,
                 bs, sz, byte + 1)

\* a from_le that stores byte k at the mirrored position (big-endian read)
from_le_BigEndian(bs, sz, nd) ==
    [st  |-> IF Capacity >= sz THEN "ok" ELSE IF nd THEN "ub" ELSE "assert",
     num |-> from_le_loop(ZeroBigint, [k \in 1..sz |-> bs[sz + 1 - k]], sz, 0)]

\* Bytes to Bigint. Little-Endian.  st: "ok", "assert" (the assertion
\* failed) or "ub" (assertion compiled out and limbs written out of bounds)
from_le(bs, sz, nd) ==
    [st  |-> IF Capacity >= sz THEN "ok" ELSE IF nd THEN "ub" ELSE "assert",
     num |-> from_le_loop(ZeroBigint, bs, sz, 0)]

\* an into_le that forgets the shift: every byte is the limb's low byte
into_le_NoShift(num, sz, nd, oob) ==
    [st  |-> IF sz >= Capacity \/ nd
             THEN (IF sz > Capacity THEN "ub" ELSE "ok")
             ELSE "assert",
     out |-> [k \in 1..sz |->
                IF (k - 1) \div BytesPerLimb < RLimbs
                THEN Uint8(num[((k - 1) \div BytesPerLimb) + 1])
                ELSE oob]]

\* Bigint to Bytes. Little-endian.  oob is what a read of num.data[limb]
\* past the array yields (reached when size exceeds the bigint)
into_le(num, sz, nd, oob) ==
    [st  |-> IF sz >= Capacity \/ nd
             THEN (IF sz > Capacity THEN "ub" ELSE "ok")
             ELSE "assert",
     out |-> [k \in 1..sz |->
                IF (k - 1) \div BytesPerLimb < RLimbs
                THEN Uint8(LimbShr(num[((k - 1) \div BytesPerLimb) + 1],
                                   ((k - 1) % BytesPerLimb) * 8))
                ELSE oob]]

RECURSIVE Concat(_)
Concat(ss) == IF ss = <<>> THEN <<>> ELSE Head(ss) \o Concat(Tail(ss))

\* Elements to bytes.
elements_into_le(from_elements, nd) ==
    Concat([i \in 1..Len(from_elements) |->
               into_le(as_bigint(from_elements[i]), fieldt_size, nd, 0).out])

\* Bytes to elements.  st is "ok" unless some from_le is not
le_into_elements(from_bytes, num_elements, element_size, nd) ==
    LET one(i) == from_le(SubSeq(from_bytes, element_size * (i - 1) + 1,
                                 element_size * i),
                          element_size, nd)
    IN  [st  |-> IF num_elements = 0 THEN "ok" ELSE one(1).st,
         els |-> [i \in 1..num_elements |-> FieldT(one(i).num)]]

\* FlatBuffers bytes into elements.  st is "div0" when size / num_elements
\* divides by zero: the division traps, or yields some element_size, and
\* le_into_elements of zero elements is the empty vector whatever that is
deserialize_elements(from_bytes, num_elements, nd) ==
    IF num_elements = 0
    THEN [st |-> "div0", els |-> <<>>]
    ELSE le_into_elements(from_bytes, num_elements,
                          Len(from_bytes) \div num_elements, nd)

\* ==== Helpers to report the content of a protoboard ====

\* Convert protoboard index to standard variable ID.
convert_variable_id(circ, index) ==
    IF index = 0 THEN 0
    ELSE IF index - 1 < Len(circ.connection_ids)
         THEN circ.connection_ids[(index - 1) + 1]
         ELSE circ.free_id + ((index - 1) - Len(circ.connection_ids))

\* Closure: add a row of a matrix
make_lc(circ, terms, nd) ==
    [variable_ids |-> [i \in 1..Len(terms) |-> convert_variable_id(circ, terms[i].index)],
     values       |-> Concat([i \in 1..Len(terms) |->
                         into_le(as_bigint(terms[i].coeff), fieldt_size, nd, 0).out])]

\* Send all rows of all three matrices
serialize_protoboard_constraints(circ, board, nd) ==
    [type        |-> "ConstraintSystem",
     constraints |-> [k \in 1..Len(board.constraints) |->
        [linear_combination_a |-> make_lc(circ, board.constraints[k].a, nd),
         linear_combination_b |-> make_lc(circ, board.constraints[k].b, nd),
         linear_combination_c |-> make_lc(circ, board.constraints[k].c, nd)]]]

\* pb.val(index) read: index 0 is the constant term, index i is values[i - 1]
PbVal(board, index) ==
    IF index = 0 THEN board.constant_term ELSE board.values[index]

\* a serialize_protoboard_local_assignment that reads pb.val(shared_vars + index)
serialize_protoboard_local_assignment_OffByOne(circ, n_outputs, board, nd) ==
    LET all_vars    == Len(board.values)
        shared_vars == Len(circ.connection_ids) + n_outputs
        local_vars  == all_vars - shared_vars
    IN  IF local_vars < 0
        THEN [st |-> "length_error", msg |-> [type |-> "none"]]
        ELSE [st  |-> "ok",
              msg |-> [type   |-> "Witness",
                       values |->
                         [variable_ids |-> [i \in 1..local_vars |-> circ.free_id + (i - 1)],
                          values       |-> Concat([i \in 1..local_vars |->
                              into_le(as_bigint(PbVal(board, shared_vars + (i - 1))),
                                      fieldt_size, nd, 0).out])]]]

\* all_vars - shared_vars is unsigned: below zero it wraps to a length no
\* vector can have and the constructor throws
serialize_protoboard_local_assignment(circ, n_outputs, board, nd) ==
    LET all_vars    == Len(board.values)
        shared_vars == Len(circ.connection_ids) + n_outputs
        local_vars  == all_vars - shared_vars
    IN  IF local_vars < 0
        THEN [st |-> "length_error", msg |-> [type |-> "none"]]
        ELSE [st  |-> "ok",
              msg |-> [type   |-> "Witness",
                       values |->
                         [variable_ids |-> [i \in 1..local_vars |-> circ.free_id + (i - 1)],
                          values       |-> Concat([i \in 1..local_vars |->
                              into_le(as_bigint(PbVal(board, 1 + shared_vars + (i - 1))),
                                      fieldt_size, nd, 0).out])]]]

\* ==== Helpers to write into a protoboard ====

\* the terms a linear_combination holds after add_term on each pair in order
deserialize_lincomb(terms, nd) ==
    LET num_terms == Len(terms.variable_ids)
        r         == deserialize_elements(terms.values, num_terms, nd)
    IN  [st |-> r.st,
         lc |-> [i \in 1..num_terms |->
                    [index |-> terms.variable_ids[i], coeff |-> r.els[i]]]]

\* the statuses of the three deserialize_lincomb calls and the constraint
deserialize_constraint(constraint, nd) ==
    LET ra == deserialize_lincomb(constraint.linear_combination_a, nd)
        rb == deserialize_lincomb(constraint.linear_combination_b, nd)
        rc == deserialize_lincomb(constraint.linear_combination_c, nd)
    IN  [sts |-> {ra.st, rb.st, rc.st},
         con |-> [a |-> ra.lc, b |-> rb.lc, c |-> rc.lc]]

\* pb.val(index) = v with index in range
PbSetVal(board, index, v) ==
    IF index = 0 THEN [board EXCEPT !.constant_term = v]
    ELSE [board EXCEPT !.values[index] = v]

\* a loop body without "if (id == 0) continue"
copy_step_NoSkip(r, id, element, nd) ==
    IF r.st = "assert" THEN r
    ELSE IF id > Len(r.pb.values)
         THEN [st |-> IF nd THEN "ub" ELSE "assert", pb |-> r.pb]
         ELSE [st |-> r.st, pb |-> PbSetVal(r.pb, id, element)]

\* one turn of the loop of copy_variables_into_protoboard.  pb.val asserts
\* index <= values.size(); without the assertion the write lands past the
\* vector ("ub") and the loop goes on
copy_step(r, id, element, nd) ==
    IF r.st = "assert" THEN r
    ELSE IF id = 0 THEN r
    ELSE IF id > Len(r.pb.values)
         THEN [st |-> IF nd THEN "ub" ELSE "assert", pb |-> r.pb]
         ELSE [st |-> r.st, pb |-> PbSetVal(r.pb, id, element)]

RECURSIVE copy_loop(_, _, _, _, _, _)
\* for (i = 0; i < num_variables; i++), turns i..num_variables
copy_loop(r, variable_ids, elements, i, num_variables, nd) ==
    IF i > num_variables THEN r
    ELSE copy_loop(copy_step(r, variable_ids[i], elements[i], nd),
                   variable_ids, elements, i + 1, num_variables, nd)

\* a copy_variables_into_protoboard whose loop stops one pair early
copy_variables_into_protoboard_StopsEarly(board, variables, nd) ==
    LET num_variables == Len(variables.variable_ids)
        e == deserialize_elements(variables.values, num_variables, nd)
    IN  IF e.st = "assert" THEN [st |-> "assert", pb |-> board]
        ELSE copy_loop([st |-> e.st, pb |-> board],
                       variables.variable_ids, e.els, 1, num_variables - 1, nd)

\* Write variable assignments into a protoboard.
copy_variables_into_protoboard(board, variables, nd) ==
    LET num_variables == Len(variables.variable_ids)
        e == deserialize_elements(variables.values, num_variables, nd)
    IN  IF e.st = "assert" THEN [st |-> "assert", pb |-> board]
        ELSE copy_loop([st |-> e.st, pb |-> board],
                       variables.variable_ids, e.els, 1, num_variables, nd)

\* ==== Variable-ID Translator of the specification ====

\* to_internal as section 4.3 defines it
to_internal(wire_id, connection_ids, free_id) ==
    IF wire_id = 0 THEN 0
    ELSE IF wire_id - 1 < Len(connection_ids) THEN 1 + (wire_id - 1)
    ELSE free_id + ((wire_id - 1) - Len(connection_ids))

\* ==== Element codec harness ====

\* elements the harness encodes: 0, 1, 42, 256, 2^16 - 1, 2^64, 2^248 + 7, r - 1
SampleElems ==
    { ElemOfBytes(<<>>), One, ElemOfBytes(<<42>>), ElemOfBytes(<<0, 1>>),
      ElemOfBytes(<<255, 255>>),
      ElemOfBytes(<<0, 0, 0, 0, 0, 0, 0, 0, 1>>),
      ElemOfBytes([k \in 1..Capacity |->
                      IF k = 1 THEN 7 ELSE IF k = Capacity THEN 1 ELSE 0]),
      Unflat([ModulusBytes EXCEPT ![1] = 0]) }

\* what a read past the end of num.data may find
OobBytes == {0, 165}

\* raw buffers a peer may send: any length up to MaxBufLen
RawBuffers ==
    { [k \in 1..n |-> IF p = 0 THEN 255 ELSE k] : n \in 0..MaxBufLen, p \in 0..1 }
        \cup { [k \in 1..fieldt_size |-> 255] }

Failed == {"assert_failed", "crashed"}

NoBoard ==
    /\ circuit = [connection_ids |-> <<>>, free_id |-> 1]
    /\ num_outputs = 0
    /\ pb = [constant_term |-> One, values |-> <<>>, constraints |-> <<>>]
    /\ msg = [type |-> "none"]
    /\ imported = <<>>
    /\ prev_pb = pb
    /\ calls = 0

InitCodec ==
    /\ ndebug \in BOOLEAN
    /\ pc = "start"
    /\ op = "none"
    /\ elem \in SampleElems
    /\ size = 0
    /\ count = 0
    /\ bytes = <<>>
    /\ elems = <<>>
    /\ NoBoard

\* into_le(elem.as_bigint(), out, sz)
IntoLe ==
    /\ pc = "start"
    /\ \E sz \in 0..MaxSize, oob \in OobBytes :
         LET r == into_le(as_bigint(elem), sz, ndebug, oob)
         IN  /\ size' = sz
             /\ IF r.st = "assert"
                THEN pc' = "assert_failed" /\ bytes' = bytes
                ELSE pc' = "encoded" /\ bytes' = r.out
    /\ op' = "roundtrip"
    /\ UNCHANGED <<ndebug, elem, count, elems>>
    /\ UNCHANGED board_vars

\* a peer sends the first sz bytes of the canonical representation
\* ("The element representation may be truncated")
Truncate ==
    /\ pc = "start"
    /\ \E sz \in 0..fieldt_size :
         /\ size' = sz
         /\ bytes' = SubSeq(into_le(as_bigint(elem), fieldt_size, ndebug, 0).out, 1, sz)
    /\ pc' = "truncated"
    /\ op' = "truncate"
    /\ UNCHANGED <<ndebug, elem, count, elems>>
    /\ UNCHANGED board_vars

\* le_into_elements(bytes, 1, size): one from_le and the FieldT of it
FromLe ==
    /\ pc \in {"encoded", "truncated"}
    /\ LET r == le_into_elements(bytes, 1, size, ndebug)
       IN  \E o \in {"crashed", "decoded"} :
             /\ pc' = IF r.st = "assert" THEN "assert_failed"
                      ELSE IF r.st = "ub" THEN o
                      ELSE "decoded"
             /\ elems' = IF pc' = "decoded" THEN r.els ELSE elems
    /\ UNCHANGED <<ndebug, op, elem, size, count, bytes>>
    /\ UNCHANGED board_vars

\* elements_into_le of n copies of elem, handed over with count n
ElementsIntoLe ==
    /\ pc = "start"
    /\ \E n \in 0..MaxCount :
         /\ count' = n
         /\ bytes' = elements_into_le([i \in 1..n |-> elem], ndebug)
    /\ pc' = "received"
    /\ op' = "bulk"
    /\ UNCHANGED <<ndebug, elem, size, elems>>
    /\ UNCHANGED board_vars

\* a peer sends a raw values buffer for n variable ids
ReceiveBytes ==
    /\ pc = "start"
    /\ bytes' \in RawBuffers
    /\ count' \in 0..MaxCount
    /\ pc' = "received"
    /\ op' = "bulk"
    /\ UNCHANGED <<ndebug, elem, size, elems>>
    /\ UNCHANGED board_vars

\* deserialize_elements(bytes, count)
DeserializeElements ==
    /\ pc = "received"
    /\ LET r == deserialize_elements(bytes, count, ndebug)
       IN  \E o \in {"crashed", "deserialized"} :
             /\ pc' = IF r.st = "assert" THEN "assert_failed"
                      ELSE IF r.st \in {"ub", "div0"} THEN o
                      ELSE "deserialized"
             /\ elems' = IF pc' = "deserialized" THEN r.els ELSE elems
    /\ UNCHANGED <<ndebug, op, elem, size, count, bytes>>
    /\ UNCHANGED board_vars

NextCodec ==
    \/ IntoLe
    \/ Truncate
    \/ FromLe
    \/ ElementsIntoLe
    \/ ReceiveBytes
    \/ DeserializeElements

SpecCodec == InitCodec /\ [][NextCodec]_vars

\* C5 as stated: for every element and every width >= the canonical width,
\* into_le then from_le at that width succeeds and returns the element.
C5_RoundTripAnyWidth ==
    (op = "roundtrip" /\ size >= fieldt_size) =>
        /\ pc \notin Failed
        /\ pc = "decoded" => elems = <<elem>>

\* C5 amended: at the canonical width (fieldt_size, the whole bigint),
\* into_le then from_le succeeds and returns the element.
C5_RoundTripCanonical ==
    (op = "roundtrip" /\ size = fieldt_size) =>
        /\ pc \notin Failed
        /\ pc = "decoded" => elems = <<elem>>

\* an element with a nonzero top byte went through the round trip
C5_Witness ==
    /\ op = "roundtrip" /\ size = fieldt_size /\ pc = "decoded"
    /\ Flat(elem)[Capacity] # 0 /\ Flat(elem)[BytesPerLimb] # 0
    /\ elems = <<elem>>

\* C6: when every byte of the canonical encoding at positions size and up
\* is zero, decoding the first size bytes at width size returns the element.
C6_Truncation ==
    (op = "truncate" /\ \A k \in (size + 1)..Capacity : Flat(as_bigint(elem))[k] = 0) =>
        /\ pc \notin Failed
        /\ pc = "decoded" => elems = <<elem>>

\* 2^64 decoded from a representation cut inside the second limb
C6_Witness ==
    /\ op = "truncate" /\ pc = "decoded"
    /\ size > BytesPerLimb /\ size < fieldt_size
    /\ Flat(elem)[size] # 0
    /\ elems = <<elem>>

\* C7 as stated: deserialize_elements returns elements only when the buffer
\* length is an exact multiple of the count (an empty buffer for count 0).
C7_MalformedRejected ==
    (op = "bulk" /\ pc = "deserialized") =>
        \/ count > 0 /\ Len(bytes) % count = 0
        \/ count = 0 /\ Len(bytes) = 0

\* ==== Protoboard harness ====

NoCodec ==
    /\ elem = One
    /\ size = 0
    /\ count = 0
    /\ bytes = <<>>
    /\ elems = <<>>

\* circuits the caller hands over: the example of the specification, a
\* gadget with no connections, and connections numbered 1, 2
SampleCircuits ==
    { [connection_ids |-> <<5, 9>>, free_id |-> 100],
      [connection_ids |-> <<>>,     free_id |-> 1],
      [connection_ids |-> <<1, 2>>, free_id |-> 3] }

Term(i, c) == [index |-> i, coeff |-> ElemOfBytes(<<c>>)]

\* constraints the gadget adds: the example of the specification, a repeated
\* id, the constant and a local variable, a coefficient of r - 1
SampleConstraints ==
    { [a |-> <<Term(1, 3)>>, b |-> <<Term(2, 7)>>, c |-> <<>>],
      [a |-> <<Term(1, 3), Term(1, 3)>>, b |-> <<Term(0, 1)>>, c |-> <<Term(4, 42)>>],
      [a |-> <<Term(3, 2), Term(1, 5)>>, b |-> <<Term(0, 1), Term(2, 1)>>,
       c |-> <<[index |-> 5, coeff |-> Unflat([ModulusBytes EXCEPT ![1] = 0])]>>] }

\* a store of n variables, variable i holding 38 + i
StoreOf(n) ==
    [constant_term |-> One,
     values        |-> [i \in 1..n |-> ElemOfBytes(<<38 + i>>)],
     constraints   |-> <<>>]

InitBoard(circuits, outputs, boards) ==
    /\ ndebug \in BOOLEAN
    /\ op = "none"
    /\ circuit \in circuits
    /\ num_outputs \in outputs
    /\ pb \in boards
    /\ msg = [type |-> "none"]
    /\ imported = <<>>
    /\ prev_pb = pb
    /\ calls = 0
    /\ NoCodec

\* ---- constraints: the gadget builds and exports, the caller imports

InitConstraints ==
    /\ InitBoard(SampleCircuits, 0..MaxOutputs, {StoreOf(MaxVars)})
    /\ pc = "building"

\* pb.add_r1cs_constraint(c)
AddConstraint ==
    /\ pc = "building"
    /\ Len(pb.constraints) < MaxConstraints
    /\ \E c \in SampleConstraints :
         pb' = [pb EXCEPT !.constraints = Append(@, c)]
    /\ UNCHANGED <<ndebug, pc, op, circuit, num_outputs, msg, imported, prev_pb, calls>>
    /\ UNCHANGED codec_vars

\* serialize_protoboard_constraints(circuit, pb)
SerializeConstraints ==
    /\ pc = "building"
    /\ msg' = serialize_protoboard_constraints(circuit, pb, ndebug)
    /\ pc' = "exported"
    /\ op' = "constraints"
    /\ UNCHANGED <<ndebug, circuit, num_outputs, pb, imported, prev_pb, calls>>
    /\ UNCHANGED codec_vars

\* deserialize_constraint of the next constraint of the message.  A
\* division by zero traps or goes on, whichever the machine does
DeserializeConstraint ==
    /\ pc = "exported"
    /\ Len(imported) < Len(msg.constraints)
    /\ LET r == deserialize_constraint(msg.constraints[Len(imported) + 1], ndebug)
       IN  \E o \in {"crashed", "exported"} :
             /\ pc' = IF "assert" \in r.sts THEN "assert_failed"
                      ELSE IF r.sts \cap {"ub", "div0"} # {} THEN o
                      ELSE "exported"
             /\ imported' = IF pc' = "exported" THEN Append(imported, r.con)
                            ELSE imported
    /\ UNCHANGED <<ndebug, op, circuit, num_outputs, pb, msg, prev_pb, calls>>
    /\ UNCHANGED codec_vars

NextConstraints ==
    \/ AddConstraint
    \/ SerializeConstraints
    \/ DeserializeConstraint

SpecConstraints == InitConstraints /\ [][NextConstraints]_vars

\* ---- local assignment: the gadget exports

InitLocal ==
    /\ InitBoard(SampleCircuits, 0..MaxOutputs, {StoreOf(n) : n \in 0..MaxVars})
    /\ pc = "ready"

\* serialize_protoboard_local_assignment(circuit, num_outputs, pb)
SerializeLocalAssignment ==
    /\ pc = "ready"
    /\ op = "none"
    /\ LET r == serialize_protoboard_local_assignment(circuit, num_outputs, pb, ndebug)
       IN  /\ msg' = r.msg
           /\ pc' = IF r.st = "ok" THEN "ready" ELSE "threw"
    /\ op' = "export"
    /\ UNCHANGED <<ndebug, circuit, num_outputs, pb, imported, prev_pb, calls>>
    /\ UNCHANGED codec_vars

NextLocal == SerializeLocalAssignment

SpecLocal == InitLocal /\ [][NextLocal]_vars

\* ---- assignment import

\* the value the k-th pair of a message carries
ValueAt(k) == ElemOfBytes(<<16 * k + 3>>)

\* a Variables table: ids, and for each the first w bytes of its value (zero
\* bytes past the canonical width), then x stray bytes
Packed(ids, w, x) ==
    [variable_ids |-> ids,
     values |-> Concat([k \in 1..Len(ids) |->
                   [j \in 1..w |-> IF j <= Capacity THEN Flat(ValueAt(k))[j] ELSE 0]])
                \o [j \in 1..x |-> 0]]

\* ids a message draws from for a store of n variables: the constant, the
\* last variable, and the first id past the store
IdsFor(n) == {0, n, n + 1}

\* messages a peer may send to a store of n variables: every sequence of those
\* ids with one-byte (truncated) values; the first and the last variable in
\* one message; some with full-width values, with a stray byte, and with
\* values wider than an element
MessagesFor(n) ==
    { Packed(ids, 1, 0) : ids \in UNION { [1..l -> IdsFor(n)] : l \in 0..MaxPairs } }
    \cup { Packed(ids, 1, 0) : ids \in {<<1, n>>, <<n, 1>>} }
    \cup { Packed(ids, fieldt_size, 0) : ids \in {<<n>>, <<0, n>>} }
    \cup { Packed(ids, 1, 1) : ids \in {<<n>>, <<1, n>>} }
    \cup { Packed(ids, fieldt_size + 1, 0) : ids \in {<<n>>} }

InitImport ==
    /\ InitBoard({[connection_ids |-> <<5, 9>>, free_id |-> 100]}, {0},
                 {StoreOf(MaxStore)})
    /\ pc = "ready"

\* copy_variables_into_protoboard(pb, message).  Where the behaviour is
\* undefined the call goes on or the process dies at the first such point
CopyVariables ==
    /\ pc = "ready"
    /\ calls < MaxCalls
    /\ \E m \in MessagesFor(Len(pb.values)) :
         LET r    == copy_variables_into_protoboard(pb, m, ndebug)
             stop == copy_variables_into_protoboard(pb, m, FALSE)
         IN  \E o \in {"crashed", "ready"} :
               /\ msg' = [type |-> "Witness", values |-> m]
               /\ pc' = IF r.st = "assert" THEN "assert_failed"
                        ELSE IF r.st \in {"ub", "div0"} THEN o
                        ELSE "ready"
               /\ pb' = IF pc' = "crashed" THEN stop.pb ELSE r.pb
    /\ prev_pb' = pb
    /\ calls' = calls + 1
    /\ op' = "import"
    /\ UNCHANGED <<ndebug, circuit, num_outputs, imported>>
    /\ UNCHANGED codec_vars

NextImport == CopyVariables

SpecImport == InitImport /\ [][NextImport]_vars

\* ==== Claims ====

\* C1 as stated: exporting a constraint system and importing every exported
\* constraint gives back, for A, B and C of each constraint, the original
\* (internal index, coefficient) term sequence, zero-term rows included.
C1_ConstraintPreservation ==
    op = "constraints" =>
        /\ pc \notin Failed
        /\ \A k \in 1..Len(imported) : imported[k] = pb.constraints[k]

\* C8 as stated: to_internal maps {0} u {1..K} u {F, F+1, ..} one-to-one onto
\* {0, 1..K, K+L+1, K+L+2, ..}, and convert_variable_id of every index so
\* produced is the wire id it came from.
C8_Bijection ==
    op = "constraints" =>
        LET K     == Len(circuit.connection_ids)
            F     == circuit.free_id
            Dom   == {0} \cup (1..K) \cup (F..(F + MaxLocals))
            Rng   == {0} \cup (1..K)
                         \cup ((K + num_outputs + 1)..(K + num_outputs + 1 + MaxLocals))
            ti(w) == to_internal(w, circuit.connection_ids, F)
        IN  /\ {ti(w) : w \in Dom} = Rng
            /\ \A w1, w2 \in Dom : ti(w1) = ti(w2) => w1 = w2
            /\ \A w \in Dom : convert_variable_id(circuit, ti(w)) = w

\* the entries of the message serialize_protoboard_local_assignment built
WitnessIds == msg.values.variable_ids
WitnessValue(j) == SubSeq(msg.values.values, fieldt_size * j + 1, fieldt_size * (j + 1))

\* C4: with n >= 1 + connection_count + output_count entries in the full
\* assignment, the local-assignment message has n - (1 + connection_count +
\* output_count) entries, entry j with id free_id + j and the value of
\* full_assignment[1 + connection_count + output_count + j].
C4_LocalAssignment ==
    LET n      == 1 + Len(pb.values)
        shared == Len(circuit.connection_ids) + num_outputs
    IN  (op = "export" /\ n >= 1 + shared) =>
            /\ pc = "ready"
            /\ msg.type = "Witness"
            /\ Len(WitnessIds) = n - (1 + shared)
            /\ Len(msg.values.values) = fieldt_size * Len(WitnessIds)
            /\ \A j \in 0..(Len(WitnessIds) - 1) :
                   /\ WitnessIds[j + 1] = circuit.free_id + j
                   /\ WitnessValue(j) = Flat(as_bigint(PbVal(pb, 1 + shared + j)))

\* the example of the specification: 2 connections, 1 output, free id 100,
\* 5 entries, the local one holding 42, exported as the one entry (100, 42)
C4_Witness ==
    /\ op = "export" /\ pc = "ready"
    /\ circuit = [connection_ids |-> <<5, 9>>, free_id |-> 100]
    /\ num_outputs = 1
    /\ Len(pb.values) = 4
    /\ pb.values[4] = ElemOfBytes(<<42>>)
    /\ WitnessIds = <<100>>
    /\ msg.values.values = Flat(ElemOfBytes(<<42>>))

\* C10 as stated: the wire id convert_variable_id gives the local variable
\* at index 1 + K + L + j is the id free_id + j that
\* serialize_protoboard_local_assignment gives it.
C10_SameLocalIds ==
    (op = "export" /\ pc = "ready") =>
        \A j \in 0..(Len(WitnessIds) - 1) :
            convert_variable_id(circuit,
                1 + Len(circuit.connection_ids) + num_outputs + j) = WitnessIds[j + 1]

\* the pairs of the message copy_variables_into_protoboard was last given
PairIds == msg.values.variable_ids
PairValues == deserialize_elements(msg.values.values, Len(PairIds), ndebug).els

\* the last pair of the message whose id is in hits
LastOf(hits) == CHOOSE k \in hits : \A h \in hits : h <= k

\* every nonzero id of the message is a variable of the store and the values
\* are no wider than an element
WellFormed ==
    /\ \A k \in 1..Len(PairIds) : PairIds[k] <= Len(prev_pb.values)
    /\ Len(PairIds) > 0 => Len(msg.values.values) \div Len(PairIds) <= Capacity

C3_ConstantOneKept ==
    /\ pb.constant_term = One
    /\ (op = "import" /\ pc \in Failed) =>
           \/ Len(PairIds) = 0
           \/ Len(msg.values.values) \div Len(PairIds) > Capacity
           \/ \E k \in 1..Len(PairIds) : PairIds[k] > Len(prev_pb.values)

\* a second import in a row took a message with id 0, paired with a value
\* other than one, ahead of a pair it wrote
C3_Witness ==
    /\ op = "import" /\ pc = "ready" /\ calls = 2
    /\ \E k1, k2 \in 1..Len(PairIds) :
         /\ k1 < k2 /\ PairIds[k1] = 0 /\ PairValues[k1] # One
         /\ PairIds[k2] # 0 /\ pb.values[PairIds[k2]] = PairValues[k2]
    /\ pb # prev_pb
    /\ pb.constant_term = One

\* C9 as stated: when the import fails the store is as it was before the
\* call.
C9_NoPartialWrite ==
    (op = "import" /\ pc \in Failed) => pb = prev_pb

====
